---- MODULE Spec2Model ----
(***************************************************************************)
(* TreasureGoblin: the import/export orchestrator and the merge engine of  *)
(* src/utils/import_export.py, over the category/transaction store whose   *)
(* schema is created by src/core/models.py.                                *)
(*                                                                         *)
(* A store is a record [st, cats, txs]: st tells whether the file holds a  *)
(* whole database ("db"), a truncated copy ("partial") or does not exist   *)
(* ("absent").  Rows are records keyed by their integer primary key.       *)
(***************************************************************************)
EXTENDS Integers, Sequences, FiniteSets, TLC

----------------------------------------------------------------------------
(* Bounds of the model *)

MaxSrcTx == 2
MaxOps == 2

(* Program constants *)

MaxAttempts == 3

NULL == "NULL"
NO_CATEGORY == "{NO_CATEGORY}"

----------------------------------------------------------------------------
(* Rows and stores *)

Cat(id, name, type, sys) ==
    [id |-> id, name |-> name, type |-> type, is_system |-> sys]

Tx(id, type, amount, date, cid, tag) ==
    [id |-> id, type |-> type, amount |-> amount, date |-> date,
     category_id |-> cid, tag |-> tag]

\* A date column value: the ISO text and whether it carries surrounding blanks.
Date(iso, padded) == [iso |-> iso, pad |-> padded]

\* An amount column value: the number in cents and its storage class
\* (INTEGER or REAL).
Amount(cents, real) == [cents |-> cents, real |-> real]

Db(cats, txs) == [st |-> "db", cats |-> cats, txs |-> txs]

Absent == [st |-> "absent", cats |-> {}, txs |-> {}]

\* A file whose copy stopped midway: no longer any database.
Partial == [st |-> "partial", cats |-> {}, txs |-> {}]

Ids(rows) == {r.id : r \in rows}

MaxId(rows) == CHOOSE i \in Ids(rows) : \A j \in Ids(rows) : j <= i

\* Mutation: the new id is taken from the number of rows.
LastRowId_Count(rows) == Cardinality(rows) + 1

\* cursor.lastrowid of an INSERT into an INTEGER PRIMARY KEY table.
LastRowId(rows) == IF rows = {} THEN 1 ELSE MaxId(rows) + 1

RECURSIVE FetchAll(_)
\* Rows in rowid order, as a table scan returns them.
FetchAll(rows) ==
    IF rows = {} THEN <<>>
    ELSE LET m == CHOOSE r \in rows : \A q \in rows : r.id <= q.id
         IN  <<m>> \o FetchAll(rows \ {m})

----------------------------------------------------------------------------
(* Inputs: the live store after some use, and the store of the archive *)

D1 == Date("2024-01-05", FALSE)
D1Padded == Date("2024-01-05", TRUE)
D2 == Date("2024-02-01", FALSE)

\* Categories of the live store: the two sentinels of setup_database and
\* the default category "Dining"; one live store also has an income
\* category of that name, and a deleted transaction (id 2).
LiveCats ==
    {Cat(1, NO_CATEGORY, "income", TRUE), Cat(2, NO_CATEGORY, "expense", TRUE),
     Cat(3, "Dining", "expense", FALSE)}

A20 == Amount(2000, FALSE)
A50 == Amount(5000, FALSE)
A50Real == Amount(5000, TRUE)
A70 == Amount(7000, FALSE)

LiveStores ==
    {Db(LiveCats, {}),
     Db(LiveCats, {Tx(1, "expense", A50, D1, 3, NULL)}),
     Db(LiveCats \cup {Cat(5, "Dining", "income", FALSE)},
        {Tx(1, "income", A20, D2, 1, "gift"),
         Tx(3, "expense", A70, D2, 2, NULL)})}

\* Categories an archive's store may hold; its ids differ from the live ones.
SrcCatPool ==
    {Cat(1, "Dining", "expense", FALSE), Cat(2, "Gift", "income", FALSE),
     Cat(3, "Dining", "income", FALSE)}

\* Transactions an archive's store may hold (the id is given by position).
\* Shapes 1, 2, 3 and 5 share one identity tuple when their categories exist.
SrcTxShapes ==
    {Tx(0, "expense", A50, D1, 1, NULL),
     Tx(0, "expense", A50, D1, 1, "lunch"),
     Tx(0, "expense", A50Real, D1Padded, 1, NULL),
     Tx(0, "income", A20, D2, 2, NULL),
     Tx(0, "expense", A50, D1, 3, NULL),
     Tx(0, "income", A70, D2, 3, "bonus")}

SrcTxSeqs == UNION {[1..n -> SrcTxShapes] : n \in 0..MaxSrcTx}

SrcStores ==
    {Db(cs, {[q[i] EXCEPT !.id = i] : i \in DOMAIN q}) :
        cs \in SUBSET SrcCatPool, q \in SrcTxSeqs}

----------------------------------------------------------------------------
(* The merge engine's computations *)

\* date.strip() if isinstance(date, str) else date
Strip(date) == [date EXCEPT !.pad = FALSE]

\* float(amount): an INTEGER 50 and a REAL 50.0 become the same float.
Float(amount) == [amount EXCEPT !.real = TRUE]

\* The NUMERIC affinity of the column amount DECIMAL(10, 2): a number with
\* no fractional part is stored as an INTEGER.
NumericAffinity(amount) == [amount EXCEPT !.real = (amount.cents % 100 # 0)]

IdentityTuple(date, amount, type, category_name) ==
    <<Strip(date), Float(amount), type, category_name>>

\* SELECT ... FROM transactions t JOIN categories c ON t.category_id = c.id
JoinRows(db) ==
    {[id |-> t.id, type |-> t.type, amount |-> t.amount, date |-> t.date,
      category_id |-> t.category_id, tag |-> t.tag,
      category_name |-> c.name] :
        <<t, c>> \in {p \in db.txs \X db.cats : p[1].category_id = p[2].id}}

\* {(row[1], row[2]): row[0] for row in ...}: the rows read at that moment.
ExistingCategories(db) ==
    {[name |-> c.name, type |-> c.type, id |-> c.id] : c \in db.cats}

InExisting(ec, name, type) == \E e \in ec : e.name = name /\ e.type = type

\* Mutation: the existing category is looked up by its name alone.
ExistingId_ByName(ec, name, type) ==
    LET hits == {e \in ec : e.name = name}
    IN  MaxId(hits)

\* Mutation: the existing category is looked up by its type alone.
ExistingId_ByType(ec, name, type) ==
    LET hits == {e \in ec : e.type = type}
    IN  MaxId(hits)

ExistingId(ec, name, type) ==
    LET hits == {e \in ec : e.name = name /\ e.type = type}
    IN  MaxId(hits)

\* Mutation: the target's dates are compared as stored, without strip().
ExistingTransactions_Raw(db) ==
    {<<r.date, Float(r.amount), r.type, r.category_name>> : r \in JoinRows(db)}

ExistingTransactions(db) ==
    {IdentityTuple(r.date, r.amount, r.type, r.category_name) :
        r \in JoinRows(db)}

\* UNIQUE(name, type) of the categories table.
UniqueOk(db, name, type) ==
    ~ \E c \in db.cats : c.name = name /\ c.type = type

\* FOREIGN KEY (category_id) REFERENCES categories(id), foreign_keys = ON.
ForeignKeyOk(db, cid) == cid \in Ids(db.cats)

\* INSERT INTO categories (name, type): is_system takes its default FALSE.
InsertCategory(db, name, type) ==
    [db EXCEPT !.cats = @ \cup {Cat(LastRowId(db.cats), name, type, FALSE)}]

\* INSERT INTO transactions (type, amount, date, category_id, tag)
InsertTransaction(db, type, amount, date, cid, tag) ==
    [db EXCEPT !.txs = @ \cup {Tx(LastRowId(db.txs), type,
                                   NumericAffinity(amount), date, cid, tag)}]

\* Mutation: an inserted tuple is not added to the duplicate-tracking set.
TrackTuple_Forget(existing_transactions, transaction_tuple) ==
    existing_transactions

\* existing_transactions.add(transaction_tuple), line 376.
TrackTuple(existing_transactions, transaction_tuple) ==
    existing_transactions \cup {transaction_tuple}

\* Mutation: the rollback keeps what the statements wrote.
Rollback_Keep(db, snapshot) == db

\* current_conn.rollback(): the store returns to its content at BEGIN.
Rollback(db, snapshot) == snapshot

\* SELECT id FROM categories WHERE type = ? LIMIT 1
DefaultCategory(db, type) == {c \in db.cats : c.type = type}

DefaultName(type) == IF type = "income" THEN "Other Income" ELSE "Other Expense"

----------------------------------------------------------------------------
(* State *)

VARIABLES
    live,      \* content of the file at db_path
    backup,    \* content of the file at db_path + ".backup"
    dest,      \* content of the export destination
    src,       \* the store inside the archive chosen for import
    pc,        \* position of the running operation, "idle" between calls
    merge,     \* the merge argument of import_database
    ops,       \* operations called so far
    loc,       \* local variables of import_database and _merge_databases
    pre,       \* the files as they were when the running operation was called
    result,    \* what the last operation returned
    merges,    \* the merges that returned, in order
    trace,     \* what the running merge did with each source transaction
    editing_transaction_id,  \* the window's attribute: 0 (None) in add mode
    drive_sync  \* the slots connected to the signals of the GoogleDriveSync object

vars == <<live, backup, dest, src, pc, merge, ops, loc, pre, result, merges, trace,
          editing_transaction_id, drive_sync>>

EmptyMap == [k \in {} |-> 0]

\* The GoogleDriveSync object after construction: nothing is connected to
\* sync_progress or sync_completed, no sync has run. A slot is identified by
\* the number of the sync_to_drive_now call whose closure it is.
NoSlots ==
    [sync_progress |-> <<>>, sync_completed |-> <<>>, calls |-> 0,
     progress_bar |-> 0, emitted |-> 0, handled |-> <<>>, outcome |-> "none"]

LocInit ==
    [backup_path |-> FALSE, attempt |-> 0,
     current_conn |-> FALSE, import_conn |-> FALSE, unreferenced |-> 0,
     in_txn |-> FALSE, snapshot |-> Absent,
     categories |-> <<>>, existing_categories |-> {},
     category_mapping |-> EmptyMap,
     existing_transactions |-> {}, transactions |-> <<>>,
     imported_count |-> 0, skipped_count |-> 0,
     temp_db |-> Absent,
     metadata |-> [total |-> 0, income |-> 0, expense |-> 0],
     began |-> FALSE, merge_raised |-> FALSE, phase |-> "none",
     import_mode |-> "closed", dialog |-> "none"]

NoResult ==
    [op |-> "none", ok |-> FALSE, msg |-> "none",
     imported_count |-> 0, skipped_count |-> 0,
     began |-> FALSE, merge_raised |-> FALSE, phase |-> "none",
     restore |-> "none", call |-> <<>>]

Returned(op, ok, msg) ==
    [op |-> op, ok |-> ok, msg |-> msg,
     imported_count |-> loc.imported_count, skipped_count |-> loc.skipped_count,
     began |-> loc.began, merge_raised |-> loc.merge_raised,
     phase |-> loc.phase, restore |-> "none", call |-> <<>>]

NoArchive == [st |-> "absent", entries |-> {}, db |-> Absent,
              counts |-> [total |-> 0, income |-> 0, expense |-> 0]]

\* shutil.copy2(from, to): the content of the file `to` afterwards and whether
\* the call raised.  It may fail before it writes, while it writes, or after
\* the content is written (copying the file times and mode).
Copy2(from, to, outcome) ==
    IF from.st = "absent" \/ outcome \in {"fail_early", "permission"}
    THEN [file |-> to, raised |-> TRUE]
    ELSE IF outcome = "fail_mid" THEN [file |-> Partial, raised |-> TRUE]
    ELSE IF outcome = "fail_late" THEN [file |-> from, raised |-> TRUE]
    ELSE [file |-> from, raised |-> FALSE]

CopyOutcomes == {"ok", "fail_early", "fail_mid", "fail_late"}

Init ==
    /\ live \in LiveStores
    /\ src \in SrcStores
    /\ backup = Absent
    /\ dest = NoArchive
    /\ pc = "idle"
    /\ merge = TRUE
    /\ ops = 0
    /\ loc = LocInit
    /\ pre = [live |-> live, backup |-> Absent, dest |-> NoArchive]
    /\ result = NoResult
    /\ merges = <<>>
    /\ trace = <<>>
    /\ editing_transaction_id = 0
    /\ drive_sync = NoSlots

----------------------------------------------------------------------------
(* import_database *)

\* What the user did in the dialogs of an operation.
Answered(chosen, confirmed) ==
    IF ~chosen THEN "no_file" ELSE IF ~confirmed THEN "declined" ELSE "accepted"

\* Mutation: the answer to the confirmation box is not looked at.
Proceeds_IgnoreConfirmation(chosen, confirmed) == chosen

\* Lines 46-47, 140-141 and 160-161: the operation goes on only with a file
\* chosen and, for an import, the confirmation answered Yes.
Proceeds(chosen, confirmed) == chosen /\ confirmed

\* Lines 132-164: the file dialog and the confirmation box.
ImportDialog(m, chosen, confirmed) ==
    /\ pc = "idle"
    /\ ops < MaxOps
    /\ ops' = ops + 1
    /\ merge' = m
    /\ pre' = [live |-> live, backup |-> backup, dest |-> dest]
    /\ loc' = [LocInit EXCEPT !.dialog = Answered(chosen, confirmed)]
    /\ trace' = <<>>
    /\ IF Proceeds(chosen, confirmed)
       THEN /\ pc' = "validating"
            /\ result' = NoResult
       ELSE /\ pc' = "idle"
            /\ result' = [NoResult EXCEPT !.op = "import", !.msg = "cancelled"]
    /\ UNCHANGED <<live, backup, dest, src, merges, editing_transaction_id, drive_sync>>

\* The archives a user may choose: a complete one, one that is no zip file,
\* one without the store entry, without the metadata entry, without both, and
\* one whose metadata is no JSON.
ArchiveKinds == {"ok", "bad_zip", "no_db", "no_meta", "empty", "bad_meta"}

\* Mutation: the presence of metadata.json is not checked before it is opened.
Validate_NoMetaCheck(archive) ==
    IF archive = "bad_zip" THEN "raise"
    ELSE IF archive \in {"no_db", "empty"} THEN "missing_database"
    ELSE IF archive \in {"no_meta", "bad_meta"} THEN "raise"
    ELSE "ok"

\* Lines 177-190: extractall, the two exists() checks in their order, and
\* json.load of the metadata.
Validate(archive) ==
    IF archive = "bad_zip" THEN "raise"
    ELSE IF archive \in {"no_db", "empty"} THEN "missing_database"
    ELSE IF archive = "no_meta" THEN "missing_metadata"
    ELSE IF archive = "bad_meta" THEN "raise"
    ELSE "ok"

\* Mutation: the backup is made whatever the mode.
AfterValidation_AlwaysBackup(m) == "backing_up"

\* Lines 194-202: if merge: the merge engine, else: the backup copy.
AfterValidation(m) == IF m THEN "merge_open" ELSE "backing_up"

\* Lines 166-198: extraction of the archive and the two presence checks.
ImportValidate(archive) ==
    /\ pc = "validating"
    /\ loc' = [loc EXCEPT !.phase = IF archive = "ok" THEN @ ELSE archive]
    /\ CASE Validate(archive) \in {"missing_database", "missing_metadata"} ->
              /\ pc' = "idle"
              /\ result' = [Returned("import", FALSE, Validate(archive))
                               EXCEPT !.phase = archive]
         [] Validate(archive) = "raise" ->
              /\ pc' = "handler"
              /\ result' = result
         [] OTHER ->
              /\ pc' = AfterValidation(merge)
              /\ result' = result
    /\ UNCHANGED <<live, backup, dest, src, merge, ops, pre, merges, trace, editing_transaction_id, drive_sync>>

----------------------------------------------------------------------------
(* _merge_databases *)

\* Mutation: the loop gives up one attempt early.
LastAttempt_Early(attempt) == attempt = MaxAttempts - 2

\* Line 265: if attempt == 2, the last of range(3).
LastAttempt(attempt) == attempt = MaxAttempts - 1

\* Mutation: the source is opened like the target, for reading and writing.
ImportOpenMode_ReadWrite == "rw"

\* Line 261: sqlite3.connect(f"file:{import_db_path}?mode=ro", uri=True)
ImportOpenMode == "ro"

\* Lines 245-269: one attempt to open the two connections.
\* Line 257: current_conn = sqlite3.connect(...) in an attempt that follows one
\* whose target connection was opened (line 257) and whose source connection
\* failed (line 261). The name is bound to the new connection; close() was
\* never called on the old one, which is closed only if the runtime finalizes
\* the object that is no longer referenced (collected).
Rebound(l, outcome, collected) ==
    IF outcome \in {"ok", "source_fails"} /\ l.current_conn /\ ~collected
    THEN l.unreferenced + 1 ELSE l.unreferenced

MergeOpen(outcome) ==
    /\ pc = "merge_open"
    /\ \E collected \in BOOLEAN :
       IF outcome = "ok"
       THEN /\ loc' = [loc EXCEPT !.current_conn = TRUE, !.import_conn = TRUE,
                                  !.unreferenced = Rebound(loc, outcome, collected),
                                  !.import_mode = ImportOpenMode]
            /\ pc' = "merge_begin"
       ELSE /\ loc' = [loc EXCEPT
                         !.current_conn = IF outcome = "source_fails" THEN TRUE ELSE @,
                         !.unreferenced = Rebound(loc, outcome, collected),
                         !.attempt = IF LastAttempt(@) THEN @ ELSE @ + 1,
                         !.phase = "open"]
            /\ pc' = IF LastAttempt(loc.attempt)
                     THEN "merge_except" ELSE "merge_open"
    /\ UNCHANGED <<live, backup, dest, src, merge, ops, pre, result, merges, trace,
                 editing_transaction_id, drive_sync>>

\* Lines 271-283: the pragma, BEGIN, and the two category queries.
MergeBegin(fail) ==
    /\ pc = "merge_begin"
    /\ IF fail \/ live.st # "db"
       THEN /\ loc' = [loc EXCEPT !.in_txn = TRUE, !.snapshot = live,
                                  !.began = TRUE, !.phase = "merge"]
            /\ pc' = "merge_except"
       ELSE /\ loc' = [loc EXCEPT
                         !.in_txn = TRUE, !.snapshot = live, !.began = TRUE,
                         !.categories = FetchAll(src.cats),
                         !.existing_categories = ExistingCategories(live)]
            /\ pc' = "merge_categories"
    /\ UNCHANGED <<live, backup, dest, src, merge, ops, pre, result, merges, trace,
                 editing_transaction_id, drive_sync>>

\* Lines 288-301: one round of the loop over the source categories.
MergeCategory(fail) ==
    /\ pc = "merge_categories"
    /\ loc.categories # <<>>
    /\ LET category == Head(loc.categories)
           cat_id == category.id
           cat_name == category.name
           cat_type == category.type
       IN  IF InExisting(loc.existing_categories, cat_name, cat_type)
           THEN /\ ~fail
                /\ loc' = [loc EXCEPT
                             !.categories = Tail(@),
                             !.category_mapping = @ @@ (cat_id :>
                                 ExistingId(loc.existing_categories, cat_name, cat_type))]
                /\ pc' = pc
                /\ live' = live
           ELSE IF fail \/ ~UniqueOk(live, cat_name, cat_type)
           THEN /\ loc' = [loc EXCEPT !.phase = "merge"]
                /\ pc' = "merge_except"
                /\ live' = live
           ELSE /\ live' = InsertCategory(live, cat_name, cat_type)
                /\ loc' = [loc EXCEPT
                             !.categories = Tail(@),
                             !.category_mapping = @ @@ (cat_id :> LastRowId(live.cats))]
                /\ pc' = pc
    /\ UNCHANGED <<backup, dest, src, merge, ops, pre, result, merges, trace, editing_transaction_id, drive_sync>>

\* Lines 303-324: the identities present in the target, and the source rows.
MergeSelectTransactions ==
    /\ pc = "merge_categories"
    /\ loc.categories = <<>>
    /\ loc' = [loc EXCEPT
                 !.existing_transactions = ExistingTransactions(live),
                 !.transactions = FetchAll(JoinRows(src))]
    /\ pc' = "merge_transactions"
    /\ UNCHANGED <<live, backup, dest, src, merge, ops, pre, result, merges, trace,
                 editing_transaction_id, drive_sync>>

\* Lines 344-360: the target category of a transaction about to be inserted;
\* the store after the lookup (a default category may have been created).
MappedCategory(db, mapping, transaction_dict) ==
    IF transaction_dict.category_id \in DOMAIN mapping
    THEN [db |-> db, id |-> mapping[transaction_dict.category_id]]
    ELSE IF DefaultCategory(db, transaction_dict.type) # {}
    THEN [db |-> db,
          id |-> (CHOOSE c \in DefaultCategory(db, transaction_dict.type) :
                    \A q \in DefaultCategory(db, transaction_dict.type) :
                        c.id <= q.id).id]
    ELSE [db |-> InsertCategory(db, DefaultName(transaction_dict.type),
                                transaction_dict.type),
          id |-> LastRowId(db.cats)]

\* Lines 327-377: one round of the loop over the source transactions.
MergeTransaction(fail) ==
    /\ pc = "merge_transactions"
    /\ loc.transactions # <<>>
    /\ LET transaction_dict == Head(loc.transactions)
           transaction_tuple ==
               IdentityTuple(transaction_dict.date, transaction_dict.amount,
                             transaction_dict.type, transaction_dict.category_name)
           mapped == MappedCategory(live, loc.category_mapping, transaction_dict)
           entry(action, new_id, cid) ==
               [src_id |-> transaction_dict.id,
                src_category_id |-> transaction_dict.category_id,
                tuple |-> transaction_tuple, action |-> action,
                new_id |-> new_id, category_id |-> cid]
       IN  IF transaction_tuple \in loc.existing_transactions
           THEN /\ ~fail
                /\ loc' = [loc EXCEPT !.transactions = Tail(@),
                                      !.skipped_count = @ + 1]
                /\ trace' = Append(trace, entry("skip", 0, 0))
                /\ pc' = pc
                /\ live' = live
           ELSE IF fail \/ ~ForeignKeyOk(mapped.db, mapped.id)
           THEN /\ live' = mapped.db
                /\ loc' = [loc EXCEPT !.phase = "merge"]
                /\ trace' = trace
                /\ pc' = "merge_except"
           ELSE /\ live' = InsertTransaction(mapped.db, transaction_dict.type,
                                             transaction_dict.amount,
                                             transaction_dict.date, mapped.id,
                                             transaction_dict.tag)
                /\ loc' = [loc EXCEPT
                             !.transactions = Tail(@),
                             !.existing_transactions =
                                 TrackTuple(@, transaction_tuple),
                             !.imported_count = @ + 1]
                /\ trace' = Append(trace, entry("insert", LastRowId(mapped.db.txs),
                                                mapped.id))
                /\ pc' = pc
    /\ UNCHANGED <<backup, dest, src, merge, ops, pre, result, merges, editing_transaction_id, drive_sync>>

\* Lines 379-382 and 390-395, then lines 196-197 of import_database:
\* commit, close both connections, return the counts.
MergeCommit(fail) ==
    /\ pc = "merge_transactions"
    /\ loc.transactions = <<>>
    /\ IF fail
       THEN /\ loc' = [loc EXCEPT !.phase = "merge"]
            /\ pc' = "merge_except"
            /\ UNCHANGED <<result, merges>>
       ELSE /\ loc' = [loc EXCEPT !.in_txn = FALSE, !.current_conn = FALSE,
                                  !.import_conn = FALSE]
            /\ pc' = "idle"
            /\ result' = Returned("import", TRUE, "merged")
            /\ merges' = Append(merges,
                   [pre |-> pre.live, post |-> live,
                    imported_count |-> loc.imported_count,
                    skipped_count |-> loc.skipped_count])
    /\ UNCHANGED <<live, backup, dest, src, merge, ops, pre, trace, editing_transaction_id, drive_sync>>

\* Lines 384-395: roll back, close both connections, raise to the caller.
MergeExcept ==
    /\ pc = "merge_except"
    /\ live' = IF loc.current_conn /\ loc.in_txn
               THEN Rollback(live, loc.snapshot) ELSE live
    /\ loc' = [loc EXCEPT !.in_txn = FALSE, !.current_conn = FALSE,
                          !.import_conn = FALSE, !.merge_raised = TRUE]
    /\ pc' = "handler"
    /\ UNCHANGED <<backup, dest, src, merge, ops, pre, result, merges, trace, editing_transaction_id, drive_sync>>

----------------------------------------------------------------------------
(* import_database, replace mode, and its failure handler *)

\* Lines 200-202: backup_path is bound, then the live store is copied to it.
ImportBackup(outcome) ==
    /\ pc = "backing_up"
    /\ LET copy == Copy2(live, backup, outcome)
       IN  /\ backup' = copy.file
           /\ loc' = [loc EXCEPT !.backup_path = TRUE,
                                 !.phase = IF copy.raised THEN "backup" ELSE @]
           /\ pc' = IF copy.raised THEN "handler" ELSE "replacing"
    /\ UNCHANGED <<live, dest, src, merge, ops, pre, result, merges, trace, editing_transaction_id, drive_sync>>

\* Lines 204-221: the settle delay, the overwrite of the live store (with the
\* byte-stream copy when shutil.copy2 meets a PermissionError), the message.
ImportReplace(outcome, fallback) ==
    /\ pc = "replacing"
    /\ outcome # "permission" => fallback = "ok"
    /\ LET first == Copy2(src, live, outcome)
           copy == IF outcome = "permission"
                   THEN Copy2(src, live, fallback) ELSE first
       IN  /\ live' = copy.file
           /\ IF copy.raised
              THEN /\ loc' = [loc EXCEPT !.phase = "replace"]
                   /\ pc' = "handler"
                   /\ result' = result
              ELSE /\ loc' = loc
                   /\ pc' = "idle"
                   /\ result' = Returned("import", TRUE, "replaced")
    /\ UNCHANGED <<backup, dest, src, merge, ops, pre, merges, trace, editing_transaction_id, drive_sync>>

\* Mutation: the except clause reports the failure without restoring.
ImportHandler_NoRestore(outcome) ==
    /\ pc = "handler"
    /\ outcome = "ok"
    /\ live' = live
    /\ result' = Returned("import", FALSE, "failed")
    /\ pc' = "idle"
    /\ UNCHANGED <<backup, dest, src, merge, ops, loc, pre, merges, trace, editing_transaction_id, drive_sync>>

\* Mutation: the restoring copy is not guarded by a try of its own.
RestoreOutcome_Escapes(raised) ==
    [to |-> IF raised THEN "escaped" ELSE "idle", msg |-> "failed"]

\* Mutation: a failed restore is swallowed and only the first failure reported.
RestoreOutcome_Quiet(raised) ==
    [to |-> "idle", msg |-> "failed"]

\* Lines 226-231: the inner try around the restoring copy; both branches return.
RestoreOutcome(raised) ==
    [to |-> "idle",
     msg |-> IF raised THEN "failed_and_restore_failed" ELSE "failed"]

\* Lines 223-231: the except clause of import_database.
ImportHandler(outcome) ==
    /\ pc = "handler"
    /\ IF ~merge /\ loc.backup_path
       THEN LET copy == Copy2(backup, live, outcome)
                out  == RestoreOutcome(copy.raised)
            IN  /\ live' = copy.file
                /\ result' = [Returned("import", FALSE, out.msg)
                               EXCEPT !.restore = IF copy.raised THEN "raised" ELSE "ok"]
                /\ pc' = out.to
       ELSE /\ outcome = "ok"
            /\ live' = live
            /\ result' = Returned("import", FALSE, "failed")
            /\ pc' = "idle"
    /\ UNCHANGED <<backup, dest, src, merge, ops, loc, pre, merges, trace, editing_transaction_id, drive_sync>>

----------------------------------------------------------------------------
(* export_database *)

\* Lines 98-117: the three COUNT queries; a file that is no store has none.
TransactionCount(db) ==
    IF db.st = "db"
    THEN [total |-> Cardinality(db.txs),
          income |-> Cardinality({t \in db.txs : t.type = "income"}),
          expense |-> Cardinality({t \in db.txs : t.type = "expense"})]
    ELSE [total |-> 0, income |-> 0, expense |-> 0]

\* Lines 95-119: _get_transaction_count; the bare except of line 118 turns
\* any exception raised by the connection or by a query into zeros.
GetTransactionCount(db, raised) ==
    IF raised THEN [total |-> 0, income |-> 0, expense |-> 0]
    ELSE TransactionCount(db)

ArchiveEntries == {"treasuregoblin.db", "metadata.json"}

\* Lines 38-47: the save dialog.
ExportDialog(chosen) ==
    /\ pc = "idle"
    /\ ops < MaxOps
    /\ ops' = ops + 1
    /\ pre' = [live |-> live, backup |-> backup, dest |-> dest]
    /\ loc' = [LocInit EXCEPT !.dialog = Answered(chosen, TRUE)]
    /\ trace' = <<>>
    /\ IF Proceeds(chosen, TRUE)
       THEN /\ pc' = "export_assemble"
            /\ result' = NoResult
       ELSE /\ pc' = "idle"
            /\ result' = [NoResult EXCEPT !.op = "export", !.msg = "cancelled"]
    /\ UNCHANGED <<live, backup, dest, src, merge, merges, editing_transaction_id, drive_sync>>

\* Lines 49-72: the store and the metadata are written to the temporary
\* directory.
ExportAssemble(outcome, count_raises) ==
    /\ pc = "export_assemble"
    /\ LET copy == Copy2(live, Absent, outcome)
       IN  IF copy.raised
           THEN /\ loc' = loc
                /\ pc' = "idle"
                /\ result' = Returned("export", FALSE, "export_failed")
           ELSE /\ loc' = [loc EXCEPT !.temp_db = copy.file,
                                      !.metadata =
                                          GetTransactionCount(live, count_raises)]
                /\ pc' = "export_zip"
                /\ result' = result
    /\ UNCHANGED <<live, backup, dest, src, merge, ops, pre, merges, trace, editing_transaction_id, drive_sync>>

\* Line 75: zipfile.ZipFile(export_file, 'w') creates or truncates the
\* destination.
ExportZipOpen(fail) ==
    /\ pc = "export_zip"
    /\ IF fail
       THEN /\ dest' = dest
            /\ pc' = "idle"
            /\ result' = Returned("export", FALSE, "export_failed")
       ELSE /\ dest' = [NoArchive EXCEPT !.st = "archive"]
            /\ pc' = "export_zip_db"
            /\ result' = result
    /\ UNCHANGED <<live, backup, src, merge, ops, loc, pre, merges, trace, editing_transaction_id, drive_sync>>

\* Line 77: the store entry; on a failure the with block closes the archive.
ExportZipWriteDb(fail) ==
    /\ pc = "export_zip_db"
    /\ IF fail
       THEN /\ dest' = dest
            /\ pc' = "idle"
            /\ result' = Returned("export", FALSE, "export_failed")
       ELSE /\ dest' = [dest EXCEPT !.entries = @ \cup {"treasuregoblin.db"},
                                    !.db = loc.temp_db]
            /\ pc' = "export_zip_meta"
            /\ result' = result
    /\ UNCHANGED <<live, backup, src, merge, ops, loc, pre, merges, trace, editing_transaction_id, drive_sync>>

\* Lines 78-83: the metadata entry, the close of the archive, the message.
ExportZipWriteMeta(fail) ==
    /\ pc = "export_zip_meta"
    /\ IF fail
       THEN /\ dest' = dest
            /\ result' = Returned("export", FALSE, "export_failed")
       ELSE /\ dest' = [dest EXCEPT !.entries = @ \cup {"metadata.json"},
                                    !.counts = loc.metadata]
            /\ result' = Returned("export", TRUE, "exported")
    /\ pc' = "idle"
    /\ UNCHANGED <<live, backup, src, merge, ops, loc, pre, merges, trace, editing_transaction_id, drive_sync>>

----------------------------------------------------------------------------
(* The application's writes to the live store: transactions and categories *)

Types == {"income", "expense"}

\* What the forms of the application submit: category names, a type the
\* schema refuses, and row ids that exist or do not.
FormNames == {"Dining", "Gift", NO_CATEGORY}
FormTypes == Types \cup {"transfer"}
FormTransactionIds == {1, 3}
FormCategoryIds == 1 .. 6

\* The outcome of an operation of the application, with its arguments.
AppResult(op, ok, msg, call) ==
    [NoResult EXCEPT !.op = op, !.ok = ok, !.msg = msg, !.call = call]

\* Mutation: the category is looked up by its name alone.
SelectCategoryId_ByName(db, name, type) ==
    {c.id : c \in {d \in db.cats : d.name = name}}

\* Mutation: the lookup finds nothing.
SelectCategoryId_None(db, name, type) == {}

\* SELECT id FROM categories WHERE name = ? AND type = ?
SelectCategoryId(db, name, type) ==
    {c.id : c \in {d \in db.cats : d.name = name /\ d.type = type}}

\* cursor.fetchone()[0] on a set of ids that is not empty.
FetchOneId(ids) == CHOOSE i \in ids : \A j \in ids : i <= j

\* The get-or-create step of add_transaction (models.py 152-168) and of
\* update_transaction (main.py 1614-1630): the store afterwards, the id
\* used, and whether the INSERT raised (UNIQUE(name, type), CHECK(type)).
GetOrCreateCategory(db, name, type) ==
    LET hits == SelectCategoryId(db, name, type)
    IN  IF hits # {}
        THEN [db |-> db, id |-> FetchOneId(hits), created |-> FALSE,
              raised |-> FALSE]
        ELSE IF type \notin Types \/ ~UniqueOk(db, name, type)
        THEN [db |-> db, id |-> 0, created |-> FALSE, raised |-> TRUE]
        ELSE [db |-> InsertCategory(db, name, type),
              id |-> LastRowId(db.cats), created |-> TRUE, raised |-> FALSE]

\* abs(float(amount)): the magnitude of the amount passed in.
Abs(amount) == [amount EXCEPT !.cents = IF @ < 0 THEN 0 - @ ELSE @]

\* models.py 121-185: add_transaction; a sqlite3.Error rolls back.
AddTransaction(type, amount, category, fail) ==
    /\ pc = "idle"
    /\ ops < MaxOps
    /\ type \in Types
    /\ LET goc == GetOrCreateCategory(live, category, type)
           raised == live.st # "db" \/ goc.raised \/ fail
           written == InsertTransaction(goc.db, type, Abs(Float(amount)), D1,
                                        goc.id, NULL)
       IN  /\ live' = IF raised THEN Rollback(goc.db, live) ELSE written
           /\ result' = AppResult("add_transaction", ~raised, "none",
                  [type |-> type, amount |-> amount, category |-> category,
                   fail |-> fail,
                   category_id |-> goc.id, created |-> goc.created,
                   transaction_id |-> IF raised THEN 0 ELSE LastRowId(goc.db.txs)])
    /\ ops' = ops + 1
    /\ pre' = [live |-> live, backup |-> backup, dest |-> dest]
    /\ loc' = LocInit
    /\ trace' = <<>>
    /\ UNCHANGED <<backup, dest, src, pc, merge, merges, editing_transaction_id, drive_sync>>

\* UPDATE transactions SET type, amount, date, category_id, tag WHERE id = ?
UpdateRow(db, transaction_id, type, amount, date, cid, tag) ==
    [db EXCEPT !.txs =
        {IF t.id = transaction_id
         THEN Tx(t.id, type, NumericAffinity(amount), date, cid, tag)
         ELSE t : t \in @}]

\* main.py 1599-1647: update_transaction; any exception rolls back.
UpdateTransaction(transaction_id, type, amount, category, fail) ==
    /\ pc = "idle"
    /\ ops < MaxOps
    /\ LET goc == GetOrCreateCategory(live, category, type)
           raised == live.st # "db" \/ goc.raised \/ fail
           written == UpdateRow(goc.db, transaction_id, type,
                                Abs(Float(amount)), D2, goc.id, NULL)
       IN  /\ live' = IF raised THEN Rollback(goc.db, live) ELSE written
           /\ result' = AppResult("update_transaction", ~raised, "none",
                  [type |-> type, amount |-> amount, category |-> category,
                   fail |-> fail,
                   category_id |-> goc.id, created |-> goc.created,
                   transaction_id |-> transaction_id])
    /\ ops' = ops + 1
    /\ pre' = [live |-> live, backup |-> backup, dest |-> dest]
    /\ loc' = LocInit
    /\ trace' = <<>>
    /\ UNCHANGED <<backup, dest, src, pc, merge, merges, editing_transaction_id, drive_sync>>

\* main.py 1460-1492: delete_transaction after the confirmation.
DeleteTransaction(transaction_id, confirmed) ==
    /\ pc = "idle"
    /\ ops < MaxOps
    /\ live.st = "db"
    /\ live' = IF confirmed
               THEN [live EXCEPT !.txs = {t \in @ : t.id # transaction_id}]
               ELSE live
    /\ result' = AppResult("delete_transaction", confirmed, "none",
                           [transaction_id |-> transaction_id])
    /\ ops' = ops + 1
    /\ pre' = [live |-> live, backup |-> backup, dest |-> dest]
    /\ loc' = LocInit
    /\ trace' = <<>>
    /\ UNCHANGED <<backup, dest, src, pc, merge, merges, editing_transaction_id, drive_sync>>

\* main.py 2257-2322: add_new_category for the type shown in the categories
\* tab; the name is stripped and must not be empty.
AddNewCategory(category_name, type, fail) ==
    /\ pc = "idle"
    /\ ops < MaxOps
    /\ type \in Types
    /\ live.st = "db"
    /\ LET exists == SelectCategoryId(live, category_name, type) # {}
           raised == ~exists /\ (fail \/ ~UniqueOk(live, category_name, type))
       IN  /\ live' = IF exists \/ raised THEN live
                      ELSE InsertCategory(live, category_name, type)
           /\ result' = AppResult("add_new_category", ~exists /\ ~raised,
                  IF exists THEN "exists" ELSE IF raised THEN "failed" ELSE "added",
                  [name |-> category_name, type |-> type, fail |-> fail])
    /\ ops' = ops + 1
    /\ pre' = [live |-> live, backup |-> backup, dest |-> dest]
    /\ loc' = LocInit
    /\ trace' = <<>>
    /\ UNCHANGED <<backup, dest, src, pc, merge, merges, editing_transaction_id, drive_sync>>

\* main.py 2060-2063: the categories tab offers the categories of the type
\* shown that are no system categories.
Offered(db) == {c \in db.cats : ~c.is_system}

\* main.py 2439-2444: another category of that type already has the name.
NameTaken(db, new_name, type, category_id) ==
    \E c \in db.cats : c.name = new_name /\ c.type = type /\ c.id # category_id

\* main.py 2430-2526: edit_category renames an offered category.
EditCategory(category_id, new_name, fail) ==
    /\ pc = "idle"
    /\ ops < MaxOps
    /\ live.st = "db"
    /\ \E c \in Offered(live) :
          /\ c.id = category_id
          /\ new_name # c.name
          /\ LET taken == NameTaken(live, new_name, c.type, category_id)
                 raised == ~taken /\ (fail \/ ~UniqueOk(live, new_name, c.type))
             IN  /\ live' = IF taken \/ raised THEN live
                            ELSE [live EXCEPT !.cats =
                                    (@ \ {c}) \cup {[c EXCEPT !.name = new_name]}]
                 /\ result' = AppResult("edit_category", ~taken /\ ~raised,
                        IF taken THEN "exists" ELSE IF raised THEN "failed"
                        ELSE "renamed",
                        [category_id |-> category_id, name |-> new_name,
                         type |-> c.type, fail |-> fail])
    /\ ops' = ops + 1
    /\ pre' = [live |-> live, backup |-> backup, dest |-> dest]
    /\ loc' = LocInit
    /\ trace' = <<>>
    /\ UNCHANGED <<backup, dest, src, pc, merge, merges, editing_transaction_id, drive_sync>>

\* Mutation: the sentinel is looked up by its name alone.
SentinelId_AnyType(db, type) ==
    {c.id : c \in {d \in db.cats : d.name = NO_CATEGORY}}

\* SELECT id FROM categories WHERE name = '{NO_CATEGORY}' AND type = ?
SentinelId(db, type) ==
    {c.id : c \in {d \in db.cats : d.name = NO_CATEGORY /\ d.type = type}}

\* Mutation: the category row is deleted without moving its transactions.
Reassign_Skip(db, no_category_id, category_id) == db

\* UPDATE transactions SET category_id = ? WHERE category_id = ?
Reassign(db, no_category_id, category_id) ==
    [db EXCEPT !.txs =
        {IF t.category_id = category_id
         THEN [t EXCEPT !.category_id = no_category_id] ELSE t : t \in @}]

\* DELETE FROM categories WHERE id = ?
DeleteCategoryRow(db, category_id) ==
    [db EXCEPT !.cats = {c \in @ : c.id # category_id}]

DeleteFaults == {"none", "update", "delete", "commit"}

\* main.py 2776-2886: BEGIN, the UPDATE, the DELETE and COMMIT; a statement
\* that raises leads to ROLLBACK.
DeleteInTransaction(db, no_category_id, category_id, fail) ==
    LET updated == Reassign(db, no_category_id, category_id)
        deleted == DeleteCategoryRow(updated, category_id)
    IN  CASE fail = "update" -> Rollback(db, db)
          [] fail = "delete" -> Rollback(updated, db)
          [] fail = "commit" -> Rollback(deleted, db)
          [] OTHER -> deleted

\* main.py 2560-2921: delete_category.
DeleteCategory(category_id, confirmed, fail) ==
    /\ pc = "idle"
    /\ ops < MaxOps
    /\ live.st = "db"
    /\ LET rows == {c \in live.cats : c.id = category_id}
           is_system == \E c \in rows : c.is_system
           category_type == IF rows = {} THEN "none"
                            ELSE (CHOOSE c \in rows : TRUE).type
           sentinel == SentinelId(live, category_type)
           verdict == IF is_system THEN "system"
                      ELSE IF rows = {} THEN "not_found"
                      ELSE IF ~confirmed THEN "declined"
                      ELSE IF sentinel = {} THEN "no_sentinel"
                      ELSE IF fail # "none" THEN "failed"
                      ELSE "deleted"
       IN  /\ (fail # "none") => verdict = "failed"
           /\ live' = IF verdict \in {"failed", "deleted"}
                      THEN DeleteInTransaction(live, FetchOneId(sentinel),
                                               category_id, fail)
                      ELSE live
           /\ result' = AppResult("delete_category", verdict = "deleted", verdict,
                  [category_id |-> category_id, type |-> category_type,
                   is_system |-> is_system, fail |-> fail])
    /\ ops' = ops + 1
    /\ pre' = [live |-> live, backup |-> backup, dest |-> dest]
    /\ loc' = LocInit
    /\ trace' = <<>>
    /\ UNCHANGED <<backup, dest, src, pc, merge, merges, editing_transaction_id, drive_sync>>

----------------------------------------------------------------------------
(* The transaction form: add mode and edit mode *)

\* main.py 1400-1409: the row edit_transaction loads, a transaction joined
\* with its category.
SelectForEdit(db, transaction_id) ==
    {t \in db.txs : t.id = transaction_id
                    /\ \E c \in db.cats : c.id = t.category_id}

\* main.py 1393-1446: edit_transaction; a transaction that is found puts the
\* form into edit mode.
EditTransaction(transaction_id) ==
    /\ pc = "idle"
    /\ live.st = "db"
    /\ LET found == SelectForEdit(live, transaction_id) # {}
       IN  /\ editing_transaction_id' =
                  IF found THEN transaction_id ELSE editing_transaction_id
           /\ result' = AppResult("edit_transaction", found,
                                  IF found THEN "loaded" ELSE "not_found",
                                  [transaction_id |-> transaction_id])
    /\ UNCHANGED <<live, backup, dest, src, pc, merge, ops, loc, pre, merges, trace,
                 drive_sync>>

\* main.py 1494-1514: cancel_edit returns the form to add mode.
CancelEdit ==
    /\ pc = "idle"
    /\ editing_transaction_id # 0
    /\ editing_transaction_id' = 0
    /\ result' = AppResult("cancel_edit", TRUE, "none", <<>>)
    /\ UNCHANGED <<live, backup, dest, src, pc, merge, ops, loc, pre, merges, trace,
                 drive_sync>>

\* main.py 1516-1598: submit_transaction. An amount that is not positive is
\* refused (1528-1531); in edit mode update_transaction is called with the id
\* kept since edit_transaction and its True resets the form (1550-1571); in
\* add mode add_transaction is called (1573-1594).
SubmitTransaction(type, amount, category, fail) ==
    /\ pc = "idle"
    /\ ops < MaxOps
    /\ type \in Types
    /\ LET editing == editing_transaction_id # 0
           goc == GetOrCreateCategory(live, category, type)
           raised == live.st # "db" \/ goc.raised \/ fail
           updated == UpdateRow(goc.db, editing_transaction_id, type,
                                Abs(Float(amount)), D2, goc.id, NULL)
           added == InsertTransaction(goc.db, type, Abs(Float(amount)), D1,
                                      goc.id, NULL)
           verdict == IF amount.cents <= 0 THEN "invalid"
                      ELSE IF editing
                      THEN IF raised THEN "update_failed" ELSE "updated"
                      ELSE IF raised THEN "add_failed" ELSE "added"
       IN  /\ (fail => verdict \in {"update_failed", "add_failed"})
           /\ live' = CASE verdict = "invalid" -> live
                        [] raised -> Rollback(goc.db, live)
                        [] editing -> updated
                        [] OTHER -> added
           /\ editing_transaction_id' =
                  IF verdict = "updated" THEN 0 ELSE editing_transaction_id
           /\ result' = AppResult("submit_transaction",
                  verdict \in {"updated", "added"}, verdict,
                  [type |-> type, amount |-> amount, category |-> category,
                   fail |-> fail, category_id |-> goc.id,
                   editing |-> editing,
                   transaction_id |-> editing_transaction_id])
    /\ ops' = ops + 1
    /\ pre' = [live |-> live, backup |-> backup, dest |-> dest]
    /\ loc' = LocInit
    /\ trace' = <<>>
    /\ UNCHANGED <<backup, dest, src, pc, merge, merges, drive_sync>>

----------------------------------------------------------------------------
(* Sync to Google Drive: the signals of the GoogleDriveSync object *)

\* signal.connect(slot): one more connection, also for a slot that is
\* connected already.
Connect(slots, slot) == Append(slots, slot)

\* signal.disconnect(slot): removes one connection of the slot.
Disconnect(slots, slot) ==
    IF \E i \in 1 .. Len(slots) : slots[i] = slot
    THEN LET i == CHOOSE i \in 1 .. Len(slots) :
                      /\ slots[i] = slot
                      /\ \A j \in 1 .. (i - 1) : slots[j] # slot
         IN  SubSeq(slots, 1, i - 1) \o SubSeq(slots, i + 1, Len(slots))
    ELSE slots

\* google_drive.py 254-304: the percentages upload_backup emits after the 0
\* the bar starts with.
ProgressValues == {50, 100}

SyncOutcomes == {"backup_failed", "upload_failed", "uploaded", "raised"}

\* main.py 1736-1773: sync_to_drive_now up to the call of sync_now. The two
\* closures of this call are connected at lines 1765-1766 and again at lines
\* 1769-1770.
SyncToDriveNow ==
    /\ pc = "idle"
    /\ ops < MaxOps
    /\ ops' = ops + 1
    /\ pc' = "sync_now"
    /\ LET slot == drive_sync.calls + 1
       IN  drive_sync' =
               [drive_sync EXCEPT
                  !.calls = slot,
                  !.sync_progress = Connect(Connect(@, slot), slot),
                  !.sync_completed = Connect(Connect(@, slot), slot),
                  !.progress_bar = 0, !.emitted = 0, !.handled = <<>>,
                  !.outcome = "none"]
    /\ result' = NoResult
    /\ UNCHANGED <<live, backup, dest, src, merge, loc, pre, merges, trace,
                   editing_transaction_id>>

\* google_drive.py 254, 284, 304: sync_progress.emit(value) during the upload;
\* update_progress of this call sets its progress bar.
SyncProgress(value) ==
    /\ pc = "sync_now"
    /\ value > drive_sync.progress_bar
    /\ drive_sync' = [drive_sync EXCEPT !.progress_bar = value]
    /\ UNCHANGED <<live, backup, dest, src, pc, merge, ops, loc, pre, result, merges,
                   trace, editing_transaction_id>>

\* google_drive.py 346-376: sync_now emits sync_completed once on each of its
\* paths (lines 355, 369, 375); the emit calls every connected slot, and each
\* handle_completion shows one result message (main.py 1761-1763, 1785-1794).
SyncNow(outcome) ==
    /\ pc = "sync_now"
    /\ outcome = "backup_failed" => drive_sync.progress_bar = 0
    /\ outcome = "uploaded" => drive_sync.progress_bar = 100
    /\ drive_sync' = [drive_sync EXCEPT
                        !.emitted = @ + 1,
                        !.handled = @ \o drive_sync.sync_completed,
                        !.outcome = outcome]
    /\ pc' = "sync_disconnect"
    /\ UNCHANGED <<live, backup, dest, src, merge, ops, loc, pre, result, merges,
                   trace, editing_transaction_id>>

\* main.py 1781-1783: one disconnect for each signal, then the return.
SyncDisconnect ==
    /\ pc = "sync_disconnect"
    /\ drive_sync' =
           [drive_sync EXCEPT
              !.sync_progress = Disconnect(@, drive_sync.calls),
              !.sync_completed = Disconnect(@, drive_sync.calls)]
    /\ pc' = "idle"
    /\ result' = AppResult("sync_to_drive_now", drive_sync.outcome = "uploaded",
                           drive_sync.outcome, <<>>)
    /\ UNCHANGED <<live, backup, dest, src, merge, ops, loc, pre, merges, trace,
                   editing_transaction_id>>

----------------------------------------------------------------------------
(* Specification *)

Next ==
    \/ \E m \in BOOLEAN, chosen \in BOOLEAN, confirmed \in BOOLEAN :
           ImportDialog(m, chosen, confirmed)
    \/ \E archive \in ArchiveKinds :
           ImportValidate(archive)
    \/ \E outcome \in {"ok", "target_fails", "source_fails"} : MergeOpen(outcome)
    \/ \E fail \in BOOLEAN : MergeBegin(fail)
    \/ \E fail \in BOOLEAN : MergeCategory(fail)
    \/ MergeSelectTransactions
    \/ \E fail \in BOOLEAN : MergeTransaction(fail)
    \/ \E fail \in BOOLEAN : MergeCommit(fail)
    \/ MergeExcept
    \/ \E outcome \in CopyOutcomes : ImportBackup(outcome)
    \/ \E outcome \in CopyOutcomes \cup {"permission"}, fallback \in CopyOutcomes :
           ImportReplace(outcome, fallback)
    \/ \E outcome \in CopyOutcomes : ImportHandler(outcome)
    \/ \E chosen \in BOOLEAN : ExportDialog(chosen)
    \/ \E outcome \in CopyOutcomes, count_raises \in BOOLEAN :
           ExportAssemble(outcome, count_raises)
    \/ \E fail \in BOOLEAN : ExportZipOpen(fail)
    \/ \E fail \in BOOLEAN : ExportZipWriteDb(fail)
    \/ \E fail \in BOOLEAN : ExportZipWriteMeta(fail)

Spec == Init /\ [][Next]_vars

\* Merge-mode imports only: the merge engine under every source, with
\* failures injected at every statement that writes.
NextMerge ==
    \/ \E chosen \in BOOLEAN, confirmed \in BOOLEAN :
           ImportDialog(TRUE, chosen, confirmed)
    \/ \E archive \in ArchiveKinds :
           ImportValidate(archive)
    \/ \E outcome \in {"ok", "target_fails", "source_fails"} : MergeOpen(outcome)
    \/ \E fail \in BOOLEAN : MergeBegin(fail)
    \/ \E fail \in BOOLEAN : MergeCategory(fail)
    \/ MergeSelectTransactions
    \/ \E fail \in BOOLEAN : MergeTransaction(fail)
    \/ \E fail \in BOOLEAN : MergeCommit(fail)
    \/ MergeExcept
    \/ ImportHandler("ok")

SpecMerge == Init /\ [][NextMerge]_vars

\* Replace-mode imports and exports: the file-level operations.
NextFiles ==
    \/ \E chosen \in BOOLEAN, confirmed \in BOOLEAN :
           ImportDialog(FALSE, chosen, confirmed)
    \/ \E archive \in ArchiveKinds :
           ImportValidate(archive)
    \/ \E outcome \in CopyOutcomes : ImportBackup(outcome)
    \/ \E outcome \in CopyOutcomes \cup {"permission"}, fallback \in CopyOutcomes :
           ImportReplace(outcome, fallback)
    \/ \E outcome \in CopyOutcomes : ImportHandler(outcome)
    \/ \E chosen \in BOOLEAN : ExportDialog(chosen)
    \/ \E outcome \in CopyOutcomes, count_raises \in BOOLEAN :
           ExportAssemble(outcome, count_raises)
    \/ \E fail \in BOOLEAN : ExportZipOpen(fail)
    \/ \E fail \in BOOLEAN : ExportZipWriteDb(fail)
    \/ \E fail \in BOOLEAN : ExportZipWriteMeta(fail)

\* The archives of these runs all hold the three categories of SrcCatPool.
InitFiles == Init /\ src.cats = SrcCatPool

SpecFiles == InitFiles /\ [][NextFiles]_vars

\* Both operations under a single live store and the sources of at most one
\* transaction: the control flow of export and import with every failure.
InitCalls ==
    /\ InitFiles
    /\ Cardinality(live.cats) = 4
    /\ Cardinality(src.txs) <= 1

SpecCalls == InitCalls /\ [][Next]_vars

\* The application's own writes and merge-mode imports.
NextApp ==
    \/ \E type \in Types, category \in FormNames, fail \in BOOLEAN :
           AddTransaction(type, A50, category, fail)
    \/ \E transaction_id \in FormTransactionIds, type \in FormTypes,
          category \in FormNames, fail \in BOOLEAN :
           UpdateTransaction(transaction_id, type, A70, category, fail)
    \/ \E transaction_id \in FormTransactionIds, confirmed \in BOOLEAN :
           DeleteTransaction(transaction_id, confirmed)
    \/ \E category_name \in FormNames, type \in Types, fail \in BOOLEAN :
           AddNewCategory(category_name, type, fail)
    \/ \E category_id \in FormCategoryIds, new_name \in FormNames, fail \in BOOLEAN :
           EditCategory(category_id, new_name, fail)
    \/ \E category_id \in FormCategoryIds, confirmed \in BOOLEAN, fail \in DeleteFaults :
           DeleteCategory(category_id, confirmed, fail)
    \/ \E chosen \in BOOLEAN, confirmed \in BOOLEAN :
           ImportDialog(TRUE, chosen, confirmed)
    \/ \E archive \in ArchiveKinds :
           ImportValidate(archive)
    \/ \E outcome \in {"ok", "target_fails", "source_fails"} : MergeOpen(outcome)
    \/ \E fail \in BOOLEAN : MergeBegin(fail)
    \/ \E fail \in BOOLEAN : MergeCategory(fail)
    \/ MergeSelectTransactions
    \/ \E fail \in BOOLEAN : MergeTransaction(fail)
    \/ \E fail \in BOOLEAN : MergeCommit(fail)
    \/ MergeExcept
    \/ ImportHandler("ok")

\* Every transaction of the store references a category of its own type.
WellTyped(db) ==
    \A t \in db.txs :
        \E c \in db.cats : c.id = t.category_id /\ c.type = t.type

\* The archives of these runs hold well-typed stores of at most one
\* transaction, without a tag.
InitApp ==
    /\ InitFiles
    /\ WellTyped(src)
    /\ Cardinality(src.txs) <= 1
    /\ \A t \in src.txs : t.tag = NULL

SpecApp == InitApp /\ [][NextApp]_vars

\* Amounts of either sign and zero, in the forms and in the archive's store.
ANeg == Amount(0 - 5000, FALSE)
AZero == Amount(0, FALSE)
FormAmounts == {A50, ANeg, AZero}

SignedSrcStores ==
    {Db(SrcCatPool, {Tx(1, "expense", a, D1, 1, NULL)}) : a \in FormAmounts}

InitAmounts ==
    /\ live \in LiveStores
    /\ src \in SignedSrcStores
    /\ backup = Absent
    /\ dest = NoArchive
    /\ pc = "idle"
    /\ merge = TRUE
    /\ ops = 0
    /\ loc = LocInit
    /\ pre = [live |-> live, backup |-> Absent, dest |-> NoArchive]
    /\ result = NoResult
    /\ merges = <<>>
    /\ trace = <<>>
    /\ editing_transaction_id = 0
    /\ drive_sync = NoSlots

\* The writers of transactions: add_transaction, update_transaction, merge.
NextAmounts ==
    \/ \E type \in Types, amount \in FormAmounts, fail \in BOOLEAN :
           AddTransaction(type, amount, "Dining", fail)
    \/ \E transaction_id \in FormTransactionIds, type \in Types,
          amount \in FormAmounts, fail \in BOOLEAN :
           UpdateTransaction(transaction_id, type, amount, "Dining", fail)
    \/ \E chosen \in BOOLEAN, confirmed \in BOOLEAN :
           ImportDialog(TRUE, chosen, confirmed)
    \/ \E archive \in ArchiveKinds :
           ImportValidate(archive)
    \/ \E outcome \in {"ok", "target_fails", "source_fails"} : MergeOpen(outcome)
    \/ \E fail \in BOOLEAN : MergeBegin(fail)
    \/ \E fail \in BOOLEAN : MergeCategory(fail)
    \/ MergeSelectTransactions
    \/ \E fail \in BOOLEAN : MergeTransaction(fail)
    \/ \E fail \in BOOLEAN : MergeCommit(fail)
    \/ MergeExcept
    \/ ImportHandler("ok")

SpecAmounts == InitAmounts /\ [][NextAmounts]_vars

\* The transaction form with deletions and merge-mode imports in between.
NextEdit ==
    \/ \E transaction_id \in FormTransactionIds : EditTransaction(transaction_id)
    \/ CancelEdit
    \/ \E type \in Types, amount \in {A70, AZero}, category \in {"Dining", "Gift"},
          fail \in BOOLEAN :
           SubmitTransaction(type, amount, category, fail)
    \/ \E transaction_id \in FormTransactionIds, confirmed \in BOOLEAN :
           DeleteTransaction(transaction_id, confirmed)
    \/ \E chosen \in BOOLEAN, confirmed \in BOOLEAN :
           ImportDialog(TRUE, chosen, confirmed)
    \/ \E archive \in ArchiveKinds :
           ImportValidate(archive)
    \/ \E outcome \in {"ok", "target_fails", "source_fails"} : MergeOpen(outcome)
    \/ \E fail \in BOOLEAN : MergeBegin(fail)
    \/ \E fail \in BOOLEAN : MergeCategory(fail)
    \/ MergeSelectTransactions
    \/ \E fail \in BOOLEAN : MergeTransaction(fail)
    \/ \E fail \in BOOLEAN : MergeCommit(fail)
    \/ MergeExcept
    \/ ImportHandler("ok")

SpecEdit == InitApp /\ [][NextEdit]_vars

\* The syncs of a session.
NextSync ==
    \/ SyncToDriveNow
    \/ \E value \in ProgressValues : SyncProgress(value)
    \/ \E outcome \in SyncOutcomes : SyncNow(outcome)
    \/ SyncDisconnect

SpecSync == InitCalls /\ [][NextSync]_vars

\* Imports in both modes: the import protocol from the dialog to the return.
NextImport ==
    \/ \E m \in BOOLEAN, chosen \in BOOLEAN, confirmed \in BOOLEAN :
           ImportDialog(m, chosen, confirmed)
    \/ \E archive \in ArchiveKinds :
           ImportValidate(archive)
    \/ \E outcome \in {"ok", "target_fails", "source_fails"} : MergeOpen(outcome)
    \/ \E fail \in BOOLEAN : MergeBegin(fail)
    \/ \E fail \in BOOLEAN : MergeCategory(fail)
    \/ MergeSelectTransactions
    \/ \E fail \in BOOLEAN : MergeTransaction(fail)
    \/ \E fail \in BOOLEAN : MergeCommit(fail)
    \/ MergeExcept
    \/ \E outcome \in CopyOutcomes : ImportBackup(outcome)
    \/ \E outcome \in CopyOutcomes \cup {"permission"}, fallback \in CopyOutcomes :
           ImportReplace(outcome, fallback)
    \/ \E outcome \in CopyOutcomes : ImportHandler(outcome)

SpecImport == InitFiles /\ [][NextImport]_vars

\* One live store, sources of at most two transactions, imports in both
\* modes, and every step of a run that has
\* begun is eventually taken: import_database runs on the thread that
\* called it and no step of it waits for anything but its own completion.
\* Whether the user ever starts a run is left open.
RunStep == pc # "idle" /\ NextImport

InitRun ==
    /\ InitFiles
    /\ Cardinality(live.cats) = 4
    /\ Cardinality(src.txs) <= 2

SpecRun == InitRun /\ [][NextImport]_vars /\ WF_vars(RunStep)

----------------------------------------------------------------------------
(* Properties of the merge engine *)

\* The running or last operation is a merge-mode import.
Merging == merge /\ result.op \in {"none", "import"} /\ ops > 0

\* A merge-mode import has returned.
MergeReturned == pc = "idle" /\ merge /\ result.op = "import"

\* A merge has committed and returned its counts.
MergeSucceeded == MergeReturned /\ result.ok /\ result.msg = "merged"

\* The identity tuples of the source rows, by the source-side category name.
SourceTuple(r) == IdentityTuple(r.date, r.amount, r.type, r.category_name)

SameKey(c, d) == c.name = d.name /\ c.type = d.type

\* C1: if an exception is raised in a merge after BEGIN (while categories are
\* created or transactions inserted), the target afterwards holds exactly the
\* categories and transactions it held before the call, and the exception
\* reaches the caller of merge (import then reports a failure).
MergeFailureRollsBack ==
    (merge /\ loc.phase = "merge" /\ loc.began /\ pc \in {"handler", "idle"})
        => /\ live = pre.live
           /\ loc.merge_raised
           /\ (pc = "idle" => result.op = "import" /\ ~result.ok
                              /\ result.merge_raised)

\* A merge failed after it had created a category and inserted a transaction.
MergeFailureWitness ==
    /\ MergeReturned
    /\ result.phase = "merge"
    /\ result.imported_count >= 1
    /\ \E c \in src.cats : ~ \E d \in pre.live.cats : SameKey(c, d)
    /\ live = pre.live

\* The hypothesis of C2 for a target: every source transaction has an identity
\* tuple, the tuples are pairwise distinct, and the target holds none of them.
DistinctAndNew(target) ==
    /\ target.st = "db"
    /\ Cardinality(JoinRows(src)) = Cardinality(src.txs)
    /\ Cardinality({SourceTuple(r) : r \in JoinRows(src)}) = Cardinality(src.txs)
    /\ {SourceTuple(r) : r \in JoinRows(src)} \cap ExistingTransactions(target) = {}

\* C2: a source of N transactions with pairwise distinct identity tuples, none
\* of them in the target, merges with counts (N, 0); merged again into the
\* resulting target it gives (0, N) and adds no transaction and no category.
MergeIdempotent ==
    \A i \in DOMAIN merges :
        DistinctAndNew(merges[i].pre) =>
            /\ merges[i].imported_count = Cardinality(src.txs)
            /\ merges[i].skipped_count = 0
            /\ (i + 1 \in DOMAIN merges /\ merges[i + 1].pre = merges[i].post) =>
                  /\ merges[i + 1].imported_count = 0
                  /\ merges[i + 1].skipped_count = Cardinality(src.txs)
                  /\ merges[i + 1].post = merges[i + 1].pre

\* Two transactions and a new category were merged, then merged again.
MergeIdempotentWitness ==
    /\ Len(merges) = 2
    /\ DistinctAndNew(merges[1].pre)
    /\ Cardinality(src.txs) = 2
    /\ merges[1].post.cats # merges[1].pre.cats
    /\ merges[2].pre = merges[1].post
    /\ merges[2].skipped_count = 2

\* C3: among the source transactions that share an identity tuple the target
\* did not hold before the merge, the first one processed is inserted and each
\* later one is skipped, whatever their tags.
FirstOfTupleInserted ==
    (Merging /\ pre.live.st = "db" /\ pc \in {"merge_transactions", "idle"}) =>
        \A i \in DOMAIN trace :
            trace[i].tuple \notin ExistingTransactions(pre.live) =>
                IF \E j \in 1..(i - 1) : trace[j].tuple = trace[i].tuple
                THEN trace[i].action = "skip"
                ELSE trace[i].action = "insert"

\* Every processed source row has its entry in the trace, with its tuple.
TraceCoversSource ==
    MergeSucceeded =>
        /\ Len(trace) = Cardinality(JoinRows(src))
        /\ \A r \in JoinRows(src) :
               \E i \in DOMAIN trace :
                   trace[i].src_id = r.id /\ trace[i].tuple = SourceTuple(r)

\* C3 together with the fact that the trace is the source.
DuplicateTupleCollapses == FirstOfTupleInserted /\ TraceCoversSource

\* Two transactions with one tuple and different tags, an empty target: one
\* insert and one skip.
DuplicateTupleWitness ==
    /\ MergeSucceeded
    /\ pre.live.txs = {}
    /\ Len(trace) = 2
    /\ trace[1].tuple = trace[2].tuple
    /\ \E t, u \in src.txs : t.id = 1 /\ u.id = 2 /\ t.tag # u.tag
    /\ result.imported_count = 1
    /\ result.skipped_count = 1

\* C4: a source category whose (name, type) the target already has gets no
\* new row in the target, and every transaction the merge inserts for it
\* points at the pre-existing category; a category row is created only for a
\* (name, type) the target did not have.
CategoryDedup ==
    (Merging /\ pre.live.st = "db" /\ live.st = "db") =>
        /\ \A c \in src.cats, d \in pre.live.cats :
               SameKey(c, d) =>
                   /\ \A e \in live.cats : SameKey(e, d) => e = d
                   /\ \A i \in DOMAIN trace :
                          (trace[i].action = "insert"
                           /\ trace[i].src_category_id = c.id) =>
                              /\ trace[i].category_id = d.id
                              /\ (pc = "idle" /\ result.ok) =>
                                     \E t \in live.txs :
                                         /\ t.id = trace[i].new_id
                                         /\ t.category_id = d.id
        /\ \A e \in live.cats \ pre.live.cats :
               ~ \E d \in pre.live.cats : SameKey(e, d)

\* A merge inserted a transaction for a source category that the target
\* already had under another id, and created another category.
CategoryDedupWitness ==
    /\ MergeSucceeded
    /\ live.cats # pre.live.cats
    /\ \E i \in DOMAIN trace, c \in src.cats, d \in pre.live.cats :
           /\ SameKey(c, d)
           /\ c.id # d.id
           /\ trace[i].action = "insert"
           /\ trace[i].src_category_id = c.id
           /\ trace[i].category_id = d.id

\* C5: a merge never modifies or deletes a row the target had before it: each
\* pre-existing transaction and category is still there with all its fields
\* (so a skipped duplicate does not overwrite a tag, and no system category is
\* deleted or renamed), and each inserted row has an id no pre-existing row of
\* its table has.
MergePreservesRows ==
    (Merging /\ pre.live.st = "db") =>
        /\ pre.live.txs \subseteq live.txs
        /\ pre.live.cats \subseteq live.cats
        /\ \A t \in live.txs \ pre.live.txs : t.id \notin Ids(pre.live.txs)
        /\ \A c \in live.cats \ pre.live.cats : c.id \notin Ids(pre.live.cats)
        /\ Cardinality(Ids(live.txs)) = Cardinality(live.txs)
        /\ Cardinality(Ids(live.cats)) = Cardinality(live.cats)

\* A merge skipped a duplicate carrying another tag than the target's row, and
\* inserted a transaction and a category.
MergePreservesRowsWitness ==
    /\ MergeSucceeded
    /\ result.skipped_count >= 1
    /\ result.imported_count >= 1
    /\ live.cats # pre.live.cats
    /\ \E t \in pre.live.txs, r \in JoinRows(src) :
           /\ SourceTuple(r) = IdentityTuple(t.date, t.amount, t.type, "Dining")
           /\ r.tag # t.tag
           /\ t \in live.txs

\* C6: after a successful merge the target has imported_count more
\* transactions than before, and for every transaction of the source the target
\* holds a transaction with the same identity tuple.
MergeCoversSource ==
    MergeSucceeded =>
        /\ Cardinality(live.txs) = Cardinality(pre.live.txs) + result.imported_count
        /\ \A t \in src.txs :
               \E r \in JoinRows(src) :
                   r.id = t.id /\ SourceTuple(r) \in ExistingTransactions(live)

\* C7: after a successful merge imported_count + skipped_count is the number
\* of transaction rows of the source, also when a source transaction's
\* category_id matches no category row of the source.
CountsCoverSource ==
    MergeSucceeded =>
        result.imported_count + result.skipped_count = Cardinality(src.txs)

----------------------------------------------------------------------------
(* Properties of the orchestrator *)

\* C8: if a replace-mode import fails while the live store is overwritten and
\* the restore from the backup does not fail, then at the return the live
\* store has the content it had before the import, and success is False.
ReplaceFailureRestores ==
    (pc = "idle" /\ ~merge /\ result.op = "import" /\ result.phase = "replace"
     /\ result.msg # "failed_and_restore_failed")
        => live = pre.live /\ ~result.ok /\ result.msg = "failed"

\* A failed overwrite by a different store was undone.
ReplaceFailureWitness ==
    /\ pc = "idle"
    /\ ~merge
    /\ result.op = "import"
    /\ result.phase = "replace"
    /\ result.msg = "failed"
    /\ pre.live.st = "db"
    /\ src # pre.live
    /\ live = pre.live

\* C9: in replace mode the live store file is never written before a backup
\* copy holding the live store's content before the import has been written
\* completely.
BackupBeforeLiveWrite ==
    [][(~merge /\ pc \in {"backing_up", "replacing", "handler"} /\ live' # live)
           => backup = pre.live]_vars

\* C10: export never partially writes the destination: when export returns,
\* the destination is as it was before the call or holds the finished
\* two-entry archive.
ExportNeverPartial ==
    (pc = "idle" /\ result.op = "export") =>
        \/ dest = pre.dest
        \/ dest.st = "archive" /\ dest.entries = ArchiveEntries

----------------------------------------------------------------------------
(* Properties of the import protocol *)

\* An import has returned to the user.
ImportReturned == pc = "idle" /\ result.op = "import" /\ result.msg # "cancelled"

\* C11: an archive that lacks the store entry or the metadata entry is
\* rejected in either mode: the import returns failure with a message that
\* names the missing entry, and the live store and the backup are what they
\* were before the import.
MalformedArchiveRejected ==
    (ImportReturned /\ result.phase \in {"no_db", "no_meta", "empty"}) =>
        /\ ~result.ok
        /\ result.msg = (IF result.phase = "no_meta" THEN "missing_metadata"
                         ELSE "missing_database")
        /\ result.restore = "none"
        /\ live = pre.live
        /\ backup = pre.backup

\* A replace-mode import of an archive without metadata, made when a backup
\* of an earlier import exists, has been rejected.
MalformedArchiveWitness ==
    /\ ImportReturned
    /\ ~merge
    /\ result.phase = "no_meta"
    /\ result.msg = "missing_metadata"
    /\ backup.st = "db"
    /\ live = pre.live

\* The program points of export_database and import_database.
ProgramPoints ==
    {"idle", "validating", "merge_open", "merge_begin", "merge_categories",
     "merge_transactions", "merge_except", "backing_up", "replacing", "handler",
     "export_assemble", "export_zip", "export_zip_db", "export_zip_meta"}

\* The messages of the two operations.
Messages ==
    {"cancelled", "missing_database", "missing_metadata", "merged", "replaced",
     "failed", "failed_and_restore_failed", "exported", "export_failed"}

\* The steps whose failure ends an import: the archive cannot be read or
\* lacks an entry, the metadata is no JSON, the backup copy or the overwrite
\* raises (a merge that raises is recorded in merge_raised).
FailedSteps ==
    (ArchiveKinds \ {"ok"}) \cup {"backup", "replace"}

\* C12: export and import always return a pair of a success flag and a
\* message, whatever step fails: control is always at a program point of the
\* two operations, a run in progress can always take its next step, and a
\* run in which a step raised returns (False, message).
AlwaysReturnsPair ==
    /\ pc \in ProgramPoints
    /\ (pc # "idle") => ENABLED Next
    /\ (pc = "idle" /\ result.op # "none") =>
           /\ result.ok \in BOOLEAN
           /\ result.msg \in Messages
           /\ result.ok <=> result.msg \in {"merged", "replaced", "exported"}
           /\ (result.phase \in FailedSteps \/ result.merge_raised) => ~result.ok

\* A replace-mode import whose overwrite and whose restore both raised has
\* returned.
AlwaysReturnsPairWitness ==
    /\ ImportReturned
    /\ ~merge
    /\ result.phase = "replace"
    /\ result.restore = "raised"
    /\ ~result.ok
    /\ result.msg \in Messages

\* The stage of the import state machine the program is in.
MergePoints ==
    {"merge_open", "merge_begin", "merge_categories", "merge_transactions",
     "merge_except"}

Stage ==
    CASE pc = "validating" -> "Validating"
      [] pc \in MergePoints -> "Merging"
      [] pc = "backing_up" -> "Backing-up"
      [] pc = "replacing" -> "Replacing"
      [] pc = "handler" -> "Failed"
      [] pc = "idle" /\ ImportReturned /\ result.ok -> "Done"
      [] pc = "idle" /\ ImportReturned /\ ~result.ok -> "Failed"
      [] OTHER -> "Idle"

\* The transitions of the state machine; a new run starts from Idle or from
\* the terminal stage of the run before.
StageTransitions ==
    ({"Idle", "Done", "Failed"} \X {"Idle", "Validating"})
    \cup ({"Validating"} \X {"Merging", "Backing-up", "Failed"})
    \cup ({"Merging"} \X {"Merging", "Done", "Failed"})
    \cup ({"Backing-up"} \X {"Replacing", "Failed"})
    \cup ({"Replacing"} \X {"Done", "Failed"})
    \cup {<<"Failed", "Failed">>}

StageStep == LET step == <<Stage, Stage'>> IN step \in StageTransitions

NoWriteBeforeValidated ==
    (pc \in {"idle", "validating"}) => (live' = live /\ backup' = backup)

\* C13: an import run takes only the transitions Idle -> Validating ->
\* (Merging | Backing-up -> Replacing) -> Done | Failed and every run that
\* has started ends in Done or Failed; a merge-mode run is never in
\* Backing-up or Replacing and a replace-mode run never in Merging; the live
\* store is not written in Idle or Validating; and a failed replace-mode
\* run reports a failed restore exactly when the restoring copy raised,
\* while a run that attempted no restore had left the live store alone.
ImportStateMachine ==
    /\ [][StageStep]_vars
    /\ [][NoWriteBeforeValidated]_vars
    /\ [](merge => Stage \notin {"Backing-up", "Replacing"})
    /\ [](~merge => Stage # "Merging")
    /\ []((ImportReturned /\ ~merge /\ ~result.ok) =>
             /\ result.msg = "failed_and_restore_failed" <=> result.restore = "raised"
             /\ result.restore = "none" => live = pre.live)
    /\ (Stage = "Validating") ~> (Stage \in {"Done", "Failed"} /\ pc = "idle")

\* A replace-mode run has passed Backing-up and Replacing and failed, and the
\* restore from the backup succeeded.
ImportStateMachineWitness ==
    /\ ImportReturned
    /\ ~merge
    /\ Stage = "Failed"
    /\ result.phase = "replace"
    /\ result.restore = "ok"
    /\ result.msg = "failed"

\* C14: when the overwrite of a replace-mode import raised, the import
\* returns failure; the message reports the original failure and the failure
\* of the restore when the restoring copy raised too, and only the original
\* failure when the restore succeeded.
OverwriteFailureReported ==
    (ImportReturned /\ ~merge /\ result.phase = "replace") =>
        /\ ~result.ok
        /\ result.restore \in {"ok", "raised"}
        /\ result.restore = "raised" => result.msg = "failed_and_restore_failed"
        /\ result.restore = "ok" => result.msg = "failed"

\* The overwrite raised, the restore raised as well, both are reported and
\* the live store is not what it was before the import.
OverwriteFailureWitness ==
    /\ ImportReturned
    /\ ~merge
    /\ result.phase = "replace"
    /\ result.restore = "raised"
    /\ result.msg = "failed_and_restore_failed"
    /\ live # pre.live

\* C15: a merge never changes the source store, whether it succeeds or
\* fails: no step of an import changes the source's categories or
\* transactions, the source connection is read-only whenever it is open, and
\* during a merge only the target store is written.
SourceNeverMutated ==
    /\ [][src' = src]_vars
    /\ [](loc.import_conn => loc.import_mode = "ro")
    /\ [][(pc \in MergePoints) => (backup' = backup /\ dest' = dest)]_vars

\* After a merge that inserted source rows into the target, a second merge
\* has raised after BEGIN and been rolled back.
SourceNeverMutatedWitness ==
    /\ MergeReturned
    /\ ~result.ok
    /\ result.merge_raised
    /\ result.began
    /\ Len(merges) = 1
    /\ merges[1].imported_count > 0
    /\ src.txs # {}

----------------------------------------------------------------------------
(* Properties of the export *)

\* C16: after a successful export the archive has exactly the two entries
\* and its transaction_count describes the store in the archive: total is the
\* number of its transactions, income and expense the numbers of each type,
\* and total = income + expense.
ExportDescribesStore ==
    (pc = "idle" /\ result.op = "export" /\ result.ok) =>
        /\ dest.st = "archive"
        /\ dest.entries = ArchiveEntries
        /\ dest.counts.total = Cardinality(dest.db.txs)
        /\ dest.counts.income =
               Cardinality({t \in dest.db.txs : t.type = "income"})
        /\ dest.counts.expense =
               Cardinality({t \in dest.db.txs : t.type = "expense"})
        /\ dest.counts.total = dest.counts.income + dest.counts.expense

----------------------------------------------------------------------------
(* Properties of the live store under the application's writes *)

\* An operation of the application has returned.
AppReturned(op) == pc = "idle" /\ result.op = op

\* C17: after any sequence of add_transaction, update_transaction,
\* delete_category and merges from well-typed sources, every transaction of
\* the live store has the type of the category its category_id references.
TypeMatchesCategory == live.st = "db" => WellTyped(live)

\* update_transaction has moved a transaction to the other type, creating
\* the category of that type on the way.
TypeMatchesCategoryWitness ==
    /\ AppReturned("update_transaction")
    /\ result.ok
    /\ result.call.created
    /\ \E t \in live.txs, u \in pre.live.txs :
          /\ t.id = result.call.transaction_id
          /\ u.id = t.id
          /\ t.type # u.type
          /\ t.category_id = result.call.category_id

\* C18: in every state of the live store a category named {NO_CATEGORY}
\* with is_system = TRUE exists for the type income and for the type expense.
SentinelsExist ==
    live.st = "db" =>
        \A type \in Types :
            \E c \in live.cats :
                c.name = NO_CATEGORY /\ c.type = type /\ c.is_system

\* C19: a confirmed delete_category of a non-system category moves every
\* transaction that referenced it to the {NO_CATEGORY} category of the same
\* type and removes the category, or does neither; the transactions are the
\* same rows in the same number before and after, and delete_category of a
\* system category changes nothing.
DeleteReassigns ==
    AppReturned("delete_category") =>
        LET cid == result.call.category_id
            before == pre.live
        IN  /\ Ids(live.txs) = Ids(before.txs)
            /\ Cardinality(live.txs) = Cardinality(before.txs)
            /\ result.call.is_system => (~result.ok /\ live = before)
            /\ ~result.ok => live = before
            /\ result.ok =>
                  /\ live.cats = {c \in before.cats : c.id # cid}
                  /\ \E c \in before.cats : c.id = cid /\ ~c.is_system
                  /\ \A u \in before.txs :
                        IF u.category_id = cid
                        THEN \E n \in live.cats :
                                /\ n.name = NO_CATEGORY
                                /\ n.type = result.call.type
                                /\ n.type = u.type
                                /\ [u EXCEPT !.category_id = n.id] \in live.txs
                        ELSE u \in live.txs

\* A category that a transaction referenced has been deleted and the
\* transaction moved.
DeleteReassignsWitness ==
    /\ AppReturned("delete_category")
    /\ result.ok
    /\ \E u \in pre.live.txs :
          /\ u.category_id = result.call.category_id
          /\ u \notin live.txs

\* UNIQUE(name, type): no two categories share a name within a type.
CategoriesUnique(db) ==
    \A c \in db.cats, d \in db.cats : SameKey(c, d) => c = d

\* The get-or-create step of the call that has returned: it used the
\* category of exactly that (name, type) when there was one and created one,
\* and only one, when there was none.
GetOrCreateExact ==
    LET call == result.call
        before == pre.live
        matches == {c \in before.cats :
                       c.name = call.category /\ c.type = call.type}
    IN  /\ (~call.fail /\ call.type \in Types) => result.ok
        /\ ~result.ok => live = before
        /\ (result.ok /\ matches # {}) =>
              /\ live.cats = before.cats
              /\ ~call.created
              /\ \E c \in matches : c.id = call.category_id
        /\ (result.ok /\ matches = {}) =>
              /\ call.created
              /\ call.category_id \notin Ids(before.cats)
              /\ live.cats = before.cats \cup
                    {Cat(call.category_id, call.category, call.type, FALSE)}

\* C20: after any sequence of add_transaction, update_transaction,
\* add_new_category, edit_category, delete_category and merges, no two
\* categories of the live store share a (name, type); get-or-create uses the
\* existing category on an exact (name, type) match and creates a category
\* only when there is none.
CategoryNamesUnique ==
    /\ live.st = "db" => CategoriesUnique(live)
    /\ (AppReturned("add_transaction") \/ AppReturned("update_transaction"))
          => GetOrCreateExact

\* add_transaction has used the existing category of its type although a
\* category of the same name and the other type exists as well.
CategoryNamesUniqueWitness ==
    /\ AppReturned("add_transaction")
    /\ result.ok
    /\ ~result.call.created
    /\ \E c \in live.cats, d \in live.cats :
          /\ c.id = result.call.category_id
          /\ c.name = result.call.category
          /\ d.name = c.name
          /\ d.type # c.type

\* C21: every transaction of the live store has an amount greater than
\* zero, whatever amount was passed to add_transaction or update_transaction
\* and whatever amounts the merged source holds.
AmountsPositive ==
    live.st = "db" => \A t \in live.txs : t.amount.cents > 0

\* C22: when the user chose no file in export or import, or declined the
\* import confirmation, the operation has returned a "cancelled" result, the
\* live store, the backup and the destination are what they were, and no
\* step of a merge, backup or overwrite was started.
CancelMutatesNothing ==
    /\ (loc.dialog \in {"no_file", "declined"}) =>
          /\ pc = "idle"
          /\ result.op \in {"import", "export"}
          /\ result.msg = "cancelled"
          /\ ~result.ok
          /\ live = pre.live
          /\ backup = pre.backup
          /\ dest = pre.dest
          /\ [loc EXCEPT !.dialog = "none"] = LocInit
    /\ (result.msg = "cancelled") => loc.dialog \in {"no_file", "declined"}

\* An import was cancelled at the confirmation box after an earlier
\* replace-mode import had left a backup and an export an archive.
CancelMutatesNothingWitness ==
    /\ loc.dialog = "declined"
    /\ result.op = "import"
    /\ result.msg = "cancelled"
    /\ backup.st = "db"
    /\ backup = pre.backup
    /\ live = pre.live

----------------------------------------------------------------------------
(* Further properties of the merge engine *)

\* The name of the target category a source category id is mapped to.
TargetName(db, mapping, src_category_id) ==
    (CHOOSE c \in db.cats : c.id = mapping[src_category_id]).name

\* C23: for every source transaction a merge has processed, the category
\* name in the identity tuple of the duplicate lookup is the name of the
\* target category its source category id is mapped to.
TupleUsesTargetName ==
    (merge /\ live.st = "db" /\ (pc = "merge_transactions" \/ MergeSucceeded)) =>
        \A i \in DOMAIN trace :
            /\ trace[i].src_category_id \in DOMAIN loc.category_mapping
            /\ loc.category_mapping[trace[i].src_category_id] \in Ids(live.cats)
            /\ trace[i].tuple[4] =
                   TargetName(live, loc.category_mapping, trace[i].src_category_id)

\* A source transaction was found to be a duplicate through a category that
\* has another id in the target than in the source.
TupleUsesTargetNameWitness ==
    /\ MergeSucceeded
    /\ \E i \in DOMAIN trace :
          /\ trace[i].action = "skip"
          /\ loc.category_mapping[trace[i].src_category_id]
                 # trace[i].src_category_id
          /\ trace[i].tuple[4] = "Dining"

\* C24: a source transaction whose category id has no entry in the category
\* mapping is still carried into the target by a successful merge: the loop
\* processes it, and when it inserts it the row references a target category
\* of the transaction's type (an existing one, or "Other Income" / "Other
\* Expense" created for it).
FallbackCategoryUsed ==
    MergeSucceeded =>
        \A t \in src.txs :
            (t.category_id \notin DOMAIN loc.category_mapping) =>
                \E i \in DOMAIN trace :
                    /\ trace[i].src_id = t.id
                    /\ trace[i].action = "insert" =>
                          \E c \in live.cats :
                              /\ c.id = trace[i].category_id
                              /\ c.type = t.type

\* One step of the loop that opens the two connections.
RetryStep ==
    (pc = "merge_open") =>
        /\ live' = live
        /\ \/ /\ pc' = "merge_begin"
              /\ loc'.current_conn /\ loc'.import_conn
              /\ loc'.attempt = loc.attempt
           \/ /\ pc' = "merge_open"
              /\ loc.attempt < MaxAttempts - 1
              /\ loc'.attempt = loc.attempt + 1
           \/ /\ pc' = "merge_except"
              /\ loc.attempt = MaxAttempts - 1

\* C25: the merge attempts to open the two connections at most 3 times: a
\* failed attempt is followed by another one while fewer than 3 were made, a
\* successful attempt ends the retrying, and after the third failure the
\* error reaches the caller with the target store unchanged.
OpenRetriedThreeTimes ==
    /\ [](loc.attempt \in 0 .. (MaxAttempts - 1))
    /\ [][RetryStep]_vars
    /\ (pc = "merge_open") ~> (pc \in {"merge_begin", "merge_except"})
    /\ []((MergeReturned /\ result.phase = "open" /\ ~result.began) =>
             /\ ~result.ok
             /\ result.merge_raised
             /\ loc.attempt = MaxAttempts - 1
             /\ live = pre.live)

\* The third attempt has failed and the import has returned the failure.
OpenRetriedThreeTimesWitness ==
    /\ MergeReturned
    /\ result.phase = "open"
    /\ ~result.began
    /\ result.msg = "failed"
    /\ loc.attempt = MaxAttempts - 1

----------------------------------------------------------------------------
(* Further properties of the replace-mode import *)

\* C26: a replace-mode import that failed while the backup was being
\* written, before the overwrite of the live store began, has left the live
\* store as it was, also when a backup of an earlier import existed.
FailedBackupLeavesLive ==
    (ImportReturned /\ ~merge /\ result.phase = "backup") => live = pre.live

----------------------------------------------------------------------------
(* Referential integrity of the live store *)

\* C27: after any sequence of the application's writes and of successful or
\* failed merges, every transaction of the live store references a category
\* row that exists: there is no dangling category_id.
NoDanglingCategory ==
    live.st = "db" =>
        \A t \in live.txs : \E c \in live.cats : c.id = t.category_id

\* A used category has been deleted in a session that also merged an archive.
NoDanglingCategoryWitness ==
    /\ AppReturned("delete_category")
    /\ result.ok
    /\ merges # <<>>
    /\ \E u \in pre.live.txs : u.category_id = result.call.category_id
    /\ live.txs # {}

----------------------------------------------------------------------------
(* Connections of the merge *)

\* C28: when the merge has returned or raised, every store connection it
\* opened has been closed, including a target connection opened in an attempt
\* whose source connection failed to open and that was followed by a retry.
AllConnectionsClosed ==
    MergeReturned =>
        /\ ~loc.current_conn
        /\ ~loc.import_conn
        /\ loc.unreferenced = 0

----------------------------------------------------------------------------
(* Edit mode of the transaction form *)

\* C29: in edit mode, submit_transaction reports that the transaction was
\* updated only if a transaction with the id loaded by edit_transaction
\* exists in the store and now carries the submitted values, whatever was
\* done between the edit and the submit, and a submit in edit mode never
\* changes the number of transactions.
UpdatedOnlyIfStored ==
    (AppReturned("submit_transaction") /\ result.call.editing) =>
        /\ Cardinality(live.txs) = Cardinality(pre.live.txs)
        /\ result.msg = "updated" =>
              \E t \in live.txs :
                  /\ t.id = result.call.transaction_id
                  /\ t.type = result.call.type
                  /\ t.amount = NumericAffinity(Abs(Float(result.call.amount)))
                  /\ t.category_id = result.call.category_id

----------------------------------------------------------------------------
(* Sync to Google Drive *)

\* C30: each call of sync_to_drive_now handles the sync_completed signal of
\* its sync exactly once, by its own handler, and after the call returns none
\* of the handlers it connected is still connected.
SyncHandledOnce ==
    AppReturned("sync_to_drive_now") =>
        /\ drive_sync.emitted = 1
        /\ drive_sync.handled = <<drive_sync.calls>>
        /\ drive_sync.sync_progress = <<>>
        /\ drive_sync.sync_completed = <<>>

====
